---- MODULE Spec2Model ----
(***************************************************************************)
(* ExamGen10: the exam preview (src/components/ExamPreview.tsx), the       *)
(* export with its answer key (handleExport in src/App.tsx), and the       *)
(* wizard of src/App.tsx with the two calls of the service module          *)
(* (analyzeExamFile, generateFullExam).                                    *)
(*                                                                         *)
(* Text the code scans (question content, option text) is a sequence of    *)
(* one-character strings; text the code only copies (titles, reference     *)
(* answers) is a string.  An optional field (options?, correctAnswer?) is  *)
(* the empty sequence when absent and a one-element sequence when present. *)
(* questionCount is 0 when absent: undefined and 0 are both falsy for the  *)
(* `||` and `!` the code applies to it.                                    *)
(***************************************************************************)
EXTENDS Integers, Sequences, FiniteSets

VARIABLES generatedExam, editingId, exported,
          currentStep, isLoading, error, sampleAnalysis, pending, raised

\* The state of App (currentStep, isLoading, error, sampleAnalysis,
\* generatedExam), the state of ExamPreview (editingId), and around them:
\* the last document downloaded (exported), the asynchronous operations in
\* flight in the order they were started (pending), and the place of the
\* exception that took the page down, "" while it is up (raised).
vars == <<generatedExam, editingId, exported,
          currentStep, isLoading, error, sampleAnalysis, pending, raised>>

\* What the preview and the export leave alone.
wizard == <<currentStep, isLoading, error, sampleAnalysis, pending, raised>>

-----------------------------------------------------------------------------
(* Bounds of the inputs.                                                   *)

MaxQuestions == 2

MaxCount == 2

-----------------------------------------------------------------------------
(* Text helpers.                                                           *)

Digits == <<"0", "1", "2", "3", "4", "5", "6", "7", "8", "9">>

IsDigit(c) == \E d \in 1..10 : Digits[d] = c

DigitValue(c) == (CHOOSE d \in 1..10 : Digits[d] = c) - 1

\* `${num}` for a number >= 0: its decimal digits.
RECURSIVE Decimal(_)
Decimal(n) ==
  IF n < 10 THEN <<Digits[n + 1]>>
  ELSE Decimal(n \div 10) \o <<Digits[(n % 10) + 1]>>

\* The value of a run of decimal digits.
RECURSIVE ParseDigits(_)
ParseDigits(ds) ==
  IF ds = <<>> THEN 0
  ELSE 10 * ParseDigits(SubSeq(ds, 1, Len(ds) - 1)) + DigitValue(ds[Len(ds)])

\* The last index of the run of digits that starts at i (i - 1 when s[i]
\* is no digit): the greedy \d+ of the pattern.
RECURSIVE DigitRunEnd(_, _)
DigitRunEnd(s, i) ==
  IF i <= Len(s) /\ IsDigit(s[i]) THEN DigitRunEnd(s, i + 1) ELSE i - 1

\* /\(\d+\)/ anchored at i: the index of the closing parenthesis of the
\* match that starts at i, 0 when there is none.
MatchEnd(s, i) ==
  IF i <= Len(s) /\ s[i] = "("
  THEN LET e == DigitRunEnd(s, i + 1)
       IN  IF e >= i + 1 /\ e + 1 <= Len(s) /\ s[e + 1] = ")" THEN e + 1 ELSE 0
  ELSE 0

\* content.match(/\(\d+\)/g): the matches, left to right, each as the pair
\* <<first index, last index>>; the empty sequence stands for null.
RECURSIVE MarkerMatches(_, _)
MarkerMatches(s, i) ==
  IF i > Len(s) THEN <<>>
  ELSE LET e == MatchEnd(s, i)
       IN  IF e > 0 THEN <<(<<i, e>>)>> \o MarkerMatches(s, e + 1)
           ELSE MarkerMatches(s, i + 1)

\* The replacement with a gapCounter that is never advanced.
RECURSIVE ReplaceMarkersStuck(_, _, _, _)
ReplaceMarkersStuck(s, i, startNumber, gapCounter) ==
  IF i > Len(s) THEN <<>>
  ELSE LET e == MatchEnd(s, i)
       IN  IF e > 0
           THEN <<"(">> \o Decimal(startNumber + gapCounter) \o <<")">>
                \o ReplaceMarkersStuck(s, e + 1, startNumber, gapCounter)
           ELSE <<s[i]>> \o ReplaceMarkersStuck(s, i + 1, startNumber, gapCounter)

\* content.replace(/\(\d+\)/g, () => `(${startNumber + gapCounter++})`)
RECURSIVE ReplaceMarkers(_, _, _, _)
ReplaceMarkers(s, i, startNumber, gapCounter) ==
  IF i > Len(s) THEN <<>>
  ELSE LET e == MatchEnd(s, i)
       IN  IF e > 0
           THEN <<"(">> \o Decimal(startNumber + gapCounter) \o <<")">>
                \o ReplaceMarkers(s, e + 1, startNumber, gapCounter + 1)
           ELSE <<s[i]>> \o ReplaceMarkers(s, i + 1, startNumber, gapCounter)

Whitespace == {" ", "\t", "\n"}

\* String.prototype.trim()
RECURSIVE trim(_)
trim(s) ==
  IF s = <<>> THEN s
  ELSE IF s[1] \in Whitespace THEN trim(Tail(s))
  ELSE IF s[Len(s)] \in Whitespace THEN trim(SubSeq(s, 1, Len(s) - 1))
  ELSE s

\* s.match(/^[A-H]\./)
HasLetterPrefix(s) ==
  Len(s) >= 2 /\ s[1] \in {"A", "B", "C", "D", "E", "F", "G", "H"} /\ s[2] = "."

Letters ==
  <<"A", "B", "C", "D", "E", "F", "G", "H", "I", "J", "K", "L", "M",
    "N", "O", "P", "Q", "R", "S", "T", "U", "V", "W", "X", "Y", "Z">>

\* String.fromCharCode for the codes of the capital letters.
fromCharCode(code) == Letters[code - 64]

-----------------------------------------------------------------------------
(* ExamPreview: the numbering pass and the rendering of one question.      *)

\* The label computed from a one-based index.
getOptionLabelOneBased(index) == fromCharCode(65 + index + 1)

getOptionLabel(index) == fromCharCode(65 + index)

\* The increment of a numbering pass that counts the markers of a
\* conversation-matching question even when it has an explicit count.
PreviewIncrementMarkersFirst(q) ==
  IF q.type = "conversation-matching"
  THEN LET matches == MarkerMatches(q.content, 1)
       IN  IF matches # <<>> THEN Len(matches) ELSE 1
  ELSE IF q.questionCount # 0 THEN q.questionCount ELSE 1

\* The increment of the numbering pass for one question.
PreviewIncrement(q) ==
  LET increment == IF q.questionCount # 0 THEN q.questionCount ELSE 1
  IN  IF q.type = "conversation-matching" /\ q.questionCount = 0
      THEN LET matches == MarkerMatches(q.content, 1)
           IN  IF matches # <<>> THEN Len(matches) ELSE 1
      ELSE increment

EmptyMap == [x \in {} |-> 0]

\* Map.prototype.set
MapSet(map, key, value) ==
  [x \in (DOMAIN map) \cup {key} |-> IF x = key THEN value ELSE map[x]]

\* section.questions.forEach of the numbering pass, from question i on;
\* st is the map and the counter.
RECURSIVE NumberQuestions(_, _, _)
NumberQuestions(qs, i, st) ==
  IF i > Len(qs) THEN st
  ELSE NumberQuestions(qs, i + 1,
         [map     |-> MapSet(st.map, qs[i].id, st.counter),
          counter |-> st.counter + PreviewIncrement(qs[i])])

\* The walk over the sections with the counter set back to 1 at each.
RECURSIVE NumberSectionsResetting(_, _, _)
NumberSectionsResetting(sections, k, st) ==
  IF k > Len(sections) THEN st
  ELSE NumberSectionsResetting(sections, k + 1,
         NumberQuestions(sections[k].questions, 1, [map |-> st.map, counter |-> 1]))

\* data.sections.forEach of the numbering pass, from section k on.
RECURSIVE NumberSections(_, _, _)
NumberSections(sections, k, st) ==
  IF k > Len(sections) THEN st
  ELSE NumberSections(sections, k + 1, NumberQuestions(sections[k].questions, 1, st))

\* The numbering pass: the map it returns and the counter it ends with.
NumberingPass(data) ==
  NumberSections(data.sections, 1, [map |-> EmptyMap, counter |-> 1])

questionNumberMap(data) == NumberingPass(data).map

\* questionNumberMap.get(q.id) || 1
StartNumber(map, q) ==
  IF q.id \in DOMAIN map /\ map[q.id] # 0 THEN map[q.id] ELSE 1

\* The text of one option of a conversation-matching question.
OptionText(opt, oIdx) ==
  IF HasLetterPrefix(trim(opt)) THEN opt
  ELSE <<getOptionLabel(oIdx)>> \o <<".", " ">> \o opt

\* A rendering that shows the raw content of every conversation-matching
\* question as soon as any question is in edit mode.
renderQuestionContentRawWhileAnyEdited(q, map, editing) ==
  LET startNumber == StartNumber(map, q)
      label == <<"Question ">> \o Decimal(startNumber) \o <<":">>
      isEditing == editing = <<q.id>>
  IN  IF q.type = "conversation-matching"
      THEN LET contentWithCorrectNumbers == ReplaceMarkers(q.content, 1, startNumber, 0)
           IN  [id |-> q.id,
                label |-> label,
                content |-> IF editing # <<>> THEN q.content ELSE contentWithCorrectNumbers,
                options |-> IF q.options = <<>> THEN <<>>
                            ELSE <<[oIdx \in 1..Len(q.options[1]) |->
                                      OptionText(q.options[1][oIdx], oIdx - 1)]>>,
                contentEditable |-> isEditing]
      ELSE [id |-> q.id,
            label |-> label,
            content |-> IF "content" \in DOMAIN q THEN q.content ELSE <<>>,
            options |-> q.options,
            contentEditable |-> isEditing]

\* What renderQuestionContent shows for q: the label, the content, the
\* options (absent, or the list of the texts shown) and whether the content
\* is editable.
renderQuestionContent(q, map, editing) ==
  LET startNumber == StartNumber(map, q)
      label == <<"Question ">> \o Decimal(startNumber) \o <<":">>
      isEditing == editing = <<q.id>>
  IN  IF q.type = "conversation-matching"
      THEN LET contentWithCorrectNumbers == ReplaceMarkers(q.content, 1, startNumber, 0)
           IN  [id |-> q.id,
                label |-> label,
                content |-> IF isEditing THEN q.content ELSE contentWithCorrectNumbers,
                options |-> IF q.options = <<>> THEN <<>>
                            ELSE <<[oIdx \in 1..Len(q.options[1]) |->
                                      OptionText(q.options[1][oIdx], oIdx - 1)]>>,
                contentEditable |-> isEditing]
      ELSE [id |-> q.id,
            label |-> label,
            content |-> IF "content" \in DOMAIN q THEN q.content ELSE <<>>,
            options |-> q.options,
            contentEditable |-> isEditing]

\* The sections of the element exam-content: for each section its title and
\* its questions as rendered.
ExamContent(data, editing) ==
  LET map == questionNumberMap(data)
  IN  [s \in 1..Len(data.sections) |->
         [title |-> data.sections[s].title,
          questions |-> [j \in 1..Len(data.sections[s].questions) |->
                           renderQuestionContent(data.sections[s].questions[j], map, editing)]]]

-----------------------------------------------------------------------------
(* App.handleExport: the answer key.                                       *)

\* The increment of an answer-key walk that takes every question of a kind
\* other than conversation-matching for one number.
KeyIncrementSingle(q) ==
  IF q.type = "conversation-matching"
  THEN IF q.questionCount # 0 THEN q.questionCount
       ELSE LET matches == MarkerMatches(q.content, 1)
            IN  IF matches # <<>> THEN Len(matches) ELSE 1
  ELSE 1

\* The increment of the answer-key walk for one question.
KeyIncrement(q) ==
  LET increment == IF q.questionCount # 0 THEN q.questionCount ELSE 1
  IN  IF q.type = "conversation-matching" /\ q.questionCount = 0
      THEN LET matches == MarkerMatches(q.content, 1)
           IN  IF matches # <<>> THEN Len(matches) ELSE 1
      ELSE increment

\* questionLabel of the answer-key walk.
KeyLabel(q, globalKeyIndex) ==
  IF q.type = "conversation-matching" /\ KeyIncrement(q) > 1
  THEN <<"Questions ">> \o Decimal(globalKeyIndex) \o <<" - ">>
       \o Decimal(globalKeyIndex + KeyIncrement(q) - 1)
  ELSE <<"Question ">> \o Decimal(globalKeyIndex)

\* The answer text without the fallback to the empty string.
AnswerTextNoFallback(q) == IF q.correctAnswer = <<>> THEN "undefined" ELSE q.correctAnswer[1]

\* q.correctAnswer || ""
AnswerText(q) == IF q.correctAnswer = <<>> THEN "" ELSE q.correctAnswer[1]

\* section.questions.forEach of the answer-key walk, from question i on;
\* st is the key written so far and globalKeyIndex.
RECURSIVE KeyQuestions(_, _, _)
KeyQuestions(qs, i, st) ==
  IF i > Len(qs) THEN st
  ELSE KeyQuestions(qs, i + 1,
         [key |-> Append(st.key,
                    [tag |-> "line",
                     label |-> KeyLabel(qs[i], st.globalKeyIndex) \o <<":">>,
                     text |-> AnswerText(qs[i])]),
          globalKeyIndex |-> st.globalKeyIndex + KeyIncrement(qs[i])])

\* An answer-key walk that writes a line for a section without questions
\* and gives it a number.
RECURSIVE KeySectionsNeverEmpty(_, _, _)
KeySectionsNeverEmpty(sections, k, st) ==
  IF k > Len(sections) THEN st
  ELSE LET titled == [key |-> Append(st.key,
                               [tag |-> "title", label |-> <<>>, text |-> sections[k].title]),
                      globalKeyIndex |-> st.globalKeyIndex]
       IN  KeySectionsNeverEmpty(sections, k + 1,
             IF sections[k].questions = <<>>
             THEN [key |-> Append(titled.key,
                             [tag |-> "line",
                              label |-> <<"Question ">> \o Decimal(st.globalKeyIndex) \o <<":">>,
                              text |-> ""]),
                   globalKeyIndex |-> st.globalKeyIndex + 1]
             ELSE KeyQuestions(sections[k].questions, 1, titled))

\* generatedExam.sections.forEach of the answer-key walk, from section k on.
RECURSIVE KeySections(_, _, _)
KeySections(sections, k, st) ==
  IF k > Len(sections) THEN st
  ELSE KeySections(sections, k + 1,
         KeyQuestions(sections[k].questions, 1,
           [key |-> Append(st.key,
                      [tag |-> "title", label |-> <<>>, text |-> sections[k].title]),
            globalKeyIndex |-> st.globalKeyIndex]))

\* The answer-key walk: the paragraphs of the key after its heading, and
\* the index the walk ends with.
AnswerKeyWalk(data) ==
  KeySections(data.sections, 1, [key |-> <<>>, globalKeyIndex |-> 1])

answerKeyContent(data) == AnswerKeyWalk(data).key

-----------------------------------------------------------------------------
(* The exams the preview is given.                                         *)

Kinds == {"multiple-choice", "constructed-response", "essay", "conversation-matching"}

Hi == <<"H", "i">>

TwoMarkers == <<"a", "(", "5", ")", "b", "(", "9", ")">>

OneMarker == <<"(", "(", "1", "2", ")", "x", "(", ")">>

ThreeMarkers == <<"(", "5", ")", " ", "(", "9", ")", " ", "(", "2", "0", ")">>

Dialogue == <<"D", ":", " ", "(", "1", ")", " ", "(", "2", ")", " ", "(", "3", ")">>

Contents == {Hi, TwoMarkers, OneMarker}

Paris == <<"P", "a", "r", "i", "s">>

London == <<"L", "o", "n", "d", "o", "n">>

OptionLists ==
  { <<Paris, London>>,
    << <<"A", ".", " ">> \o Paris, <<"g", "o">> >>,
    << <<" ", "C", ".", "x">>, <<"I", ".", "x">> >> }

Answers == {<<>>, <<"">>, <<"1-A, 2-C">>}

\* A question without its identifier.
Body(type, content, questionCount, options, correctAnswer) ==
  [type |-> type, content |-> content, questionCount |-> questionCount,
   options |-> options, correctAnswer |-> correctAnswer]

\* The kinds that come with options: "For multiple choice or matching list".
KindsWithOptions == {"multiple-choice", "conversation-matching"}

\* The questions that vary in kind, content and explicit count, and those
\* that vary in kind, options and reference answer.
Pool ==
  { Body(t, c, n, <<>>, <<>>) : t \in Kinds, c \in Contents, n \in 0..MaxCount }
  \cup
  { Body(t, Hi, 0, <<o>>, a) : t \in KindsWithOptions, o \in OptionLists, a \in Answers }

\* A few questions of the pool, for the longer exams: one number, an
\* explicit count on another kind, markers counted, an explicit count
\* below and above the number of markers, and options with an answer.
Fillers ==
  { Body("multiple-choice", Hi, 0, <<>>, <<>>),
    Body("essay", TwoMarkers, MaxCount, <<>>, <<>>),
    Body("conversation-matching", TwoMarkers, 0, <<>>, <<>>),
    Body("conversation-matching", TwoMarkers, 1, <<>>, <<>>),
    Body("conversation-matching", OneMarker, MaxCount, <<>>, <<>>),
    Body("multiple-choice", Hi, 0, <<<<Paris, London>>>>, <<"1-A, 2-C">>) }

\* Identifiers are unique within an exam: the j-th question is "q<j>".
IdOf(j) == <<"q">> \o Decimal(j)

WithId(body, j) ==
  [id |-> IdOf(j), type |-> body.type, content |-> body.content,
   questionCount |-> body.questionCount, options |-> body.options,
   correctAnswer |-> body.correctAnswer]

RECURSIVE SumTo(_, _)
SumTo(lens, k) == IF k = 0 THEN 0 ELSE SumTo(lens, k - 1) + lens[k]

PartTitle(k) == <<"Part ">> \o Decimal(k)

\* The exam whose questions are bodies, in this order, cut into sections of
\* the lengths lens.
MakeExam(bodies, lens) ==
  [title |-> "Exam",
   sections |-> [k \in 1..Len(lens) |->
     [title |-> PartTitle(k),
      questions |-> [j \in 1..lens[k] |->
                       WithId(bodies[SumTo(lens, k - 1) + j], SumTo(lens, k - 1) + j)]]]]

\* The end-to-end scenario: q1 multiple-choice and q2 conversation-matching
\* with three markers and no count in one section, q3 essay in the next.
ScenarioExam ==
  MakeExam(<<Body("multiple-choice", Hi, 0, <<>>, <<"B">>),
             Body("conversation-matching", Dialogue, 0, <<>>, <<"1-A, 2-C, 3-B">>),
             Body("essay", Hi, 0, <<>>, <<>>)>>,
           <<2, 1>>)

\* An exam whose numbers reach two digits: a conversation-matching question
\* that starts at 11, and one with an explicit count of 5 over three markers.
LongExam ==
  MakeExam(<<Body("multiple-choice", Hi, 10, <<>>, <<"B">>),
             Body("conversation-matching", ThreeMarkers, 0, <<<<Paris, London>>>>, <<>>),
             Body("conversation-matching", Dialogue, 5, <<>>, <<"1-A">>),
             Body("essay", Hi, 0, <<>>, <<>>)>>,
           <<1, 2, 1>>)

\* The exams of n questions of a pool, cut in every way into at most n
\* sections, empty ones included (for n = 0: no section, or an empty one).
ExamsOf(pool, n) ==
  { MakeExam(bodies, lens) :
      <<bodies, lens>> \in
        UNION { { <<b, l>> \in [1..n -> pool] \X [1..s -> 0..n] : SumTo(l, s) = n } :
                s \in 0..(IF n = 0 THEN 1 ELSE n) } }

\* Every exam of at most two questions of the pool, every exam of at most
\* MaxQuestions of the fillers, and the two examples.
Exams ==
  ExamsOf(Pool, 0) \cup ExamsOf(Pool, 1) \cup ExamsOf(Pool, 2)
  \cup UNION { ExamsOf(Fillers, n) : n \in 0..MaxQuestions }
  \cup {ScenarioExam, LongExam}

-----------------------------------------------------------------------------
(* The service module: the two calls and what comes back.                  *)

\* AppStep of the type declarations.
UPLOAD == 1

MATRIX == 2

GENERATE == 3

PREVIEW == 4

\* The value null of a parsed document.
JsonNull == [null |-> TRUE]

\* A state value of App that may be null: <<>> for null, <<v>> otherwise.
Nullable(v) == IF v = JsonNull THEN <<>> ELSE <<v>>

\* A response text is a sequence of chunks: the fence that opens a code
\* block of JSON, the bare fence that closes a block, a JSON document (with
\* the value it stands for) and prose.
OpenFence == [chunk |-> "fence json"]

CloseFence == [chunk |-> "fence"]

Prose == [chunk |-> "prose"]

JsonDocument(value) == [chunk |-> "json", json |-> value]

\* cleanJsonString: the empty text for no text, else the text without a
\* fence at its start and without a fence at its end.
cleanJsonString(str) ==
  IF str = <<>> THEN <<>>
  ELSE LET a == IF str[1] = OpenFence THEN Tail(str) ELSE str
           b == IF a # <<>> /\ a[1] = CloseFence THEN Tail(a) ELSE a
       IN  IF b # <<>> /\ b[Len(b)] = CloseFence THEN SubSeq(b, 1, Len(b) - 1) ELSE b

\* Whether JSON.parse accepts the text: it is one document and nothing else.
Parses(text) == Len(text) = 1 /\ text[1].chunk = "json"

\* JSON.parse of a text it accepts.
JsonParse(text) == text[1].json

\* What generateContent does: the call fails with a message, or it answers
\* with a text (<<>> when the answer has no text).
Rejected(message) == [rejected |-> TRUE, message |-> message]

Answered(text) == [rejected |-> FALSE, text |-> text]

\* The ways a document reaches the caller: bare, in a code block, after a
\* sentence of prose, and in a block that is never closed.
Wrappings(value) ==
  { <<JsonDocument(value)>>,
    <<OpenFence, JsonDocument(value), CloseFence>>,
    <<CloseFence, JsonDocument(value), CloseFence>>,
    <<Prose, OpenFence, JsonDocument(value), CloseFence>> }

\* The responses of a call that is to produce one of the values.
ResponsesOf(values) ==
  { Rejected("fetch failed"), Rejected(""), Answered(<<>>), Answered(<<Prose>>) }
  \cup { Answered(text) : text \in UNION { Wrappings(v) : v \in values } }

\* AnalysisResult.
Analysis(difficulty, structureSummary, cefrLevel, avgWordCount, difficultyDesc) ==
  [difficulty |-> difficulty, structureSummary |-> structureSummary,
   cefrLevel |-> cefrLevel,
   readingStats |-> [avgWordCount |-> avgWordCount, difficultyDesc |-> difficultyDesc]]

\* The record analyzeExamFile returns from its catch block (the texts in
\* ASCII).
FallbackAnalysis ==
  Analysis("Chua xac dinh", "Khong the phan tich cau truc", "N/A", 150, "Trung binh")

\* An analyzeExamFile whose catch block is not reached from JSON.parse: a
\* text that does not parse comes back as null.
analyzeExamFileParseUncaught(response) ==
  IF response.rejected THEN FallbackAnalysis
  ELSE IF response.text # <<>>
       THEN LET cleanedText == cleanJsonString(response.text)
            IN  IF Parses(cleanedText) THEN JsonParse(cleanedText) ELSE JsonNull
       ELSE FallbackAnalysis

\* analyzeExamFile, given what generateContent does: the parsed document,
\* and the fallback record when the call fails, when the answer has no
\* text and when the text does not parse.
analyzeExamFile(response) ==
  IF response.rejected THEN FallbackAnalysis
  ELSE IF response.text # <<>>
       THEN LET cleanedText == cleanJsonString(response.text)
            IN  IF Parses(cleanedText) THEN JsonParse(cleanedText) ELSE FallbackAnalysis
       ELSE FallbackAnalysis

\* generateFullExam, given what generateContent does: the parsed document
\* returned, or an error thrown with its message (the outer catch throws on
\* what it caught).
generateFullExam(response) ==
  IF response.rejected THEN [thrown |-> TRUE, message |-> response.message]
  ELSE IF response.text # <<>>
       THEN LET cleanedText == cleanJsonString(response.text)
            IN  IF Parses(cleanedText)
                THEN [thrown |-> FALSE, value |-> JsonParse(cleanedText)]
                ELSE [thrown |-> TRUE,
                      message |-> "Du lieu tra ve tu AI khong dung dinh dang JSON."]
       ELSE [thrown |-> TRUE, message |-> "Failed to generate exam content"]

-----------------------------------------------------------------------------
(* What the wizard is given: files, analyses, generated documents.         *)

\* The character a decoder puts for bytes that are no text.
Replacement == "U+FFFD"

PlainText == <<"Q", "1", ".", " ", "H", "i">>

BinaryText == <<"P", "K", Replacement, "x">>

\* A text whose first replacement character is its 101st character.
LateGarbage == [i \in 1..101 |-> IF i = 101 THEN Replacement ELSE "a"]

\* text.substring(0, 100).includes(replacement character)
LooksBinary(text) ==
  LET head == SubSeq(text, 1, IF Len(text) < 100 THEN Len(text) ELSE 100)
  IN  \E i \in 1..Len(head) : head[i] = Replacement

\* A file the user picks: whether readAsText can read it, and its text.
File(readable, text) == [readable |-> readable, text |-> text]

Files ==
  { File(TRUE, PlainText), File(TRUE, BinaryText), File(TRUE, LateGarbage),
    File(FALSE, PlainText) }

\* event.target.files: no file, or the file picked.
FileLists == {<<>>} \cup { <<f>> : f \in Files }

\* mockAnalysis of handleFileUpload (the texts in ASCII).
mockAnalysis ==
  Analysis("Trung binh - Kha", "De gom 40 cau trac nghiem va 2 bai viet tu luan.",
           "A2-B1", 180, "Van ban chu de doi song, cau ghep chiem 30%")

\* What the analysis call can be answered with: a full record, a record
\* without its reading statistics, and null.
AnalysisValues ==
  { Analysis("Kha", "Part I, Part II", "B1", 120, "Cau don"),
    [difficulty |-> "Kha", cefrLevel |-> "B1"],
    JsonNull }

AnalysisResponses == ResponsesOf(AnalysisValues)

\* What the user types into the two fields of the matrix step.
WordCountInputs == {<<>>, <<"2", "0", "0">>}

DifficultyInputs == {"", "Cau phuc"}

\* A question of a document that came without the field content.
WithoutContent(q) ==
  [id |-> q.id, type |-> q.type, questionCount |-> q.questionCount,
   options |-> q.options, correctAnswer |-> q.correctAnswer]

\* The exam with the content of the questions ids left out.
Strip(exam, ids) ==
  [title |-> exam.title,
   sections |-> [k \in 1..Len(exam.sections) |->
     [title |-> exam.sections[k].title,
      questions |-> [j \in 1..Len(exam.sections[k].questions) |->
        LET q == exam.sections[k].questions[j]
        IN  IF q.id \in ids THEN WithoutContent(q) ELSE q]]]]

\* A conversation-matching question with an explicit count, then an essay
\* with one, then a multiple-choice question.
CountedExam ==
  MakeExam(<<Body("conversation-matching", Dialogue, 3, <<>>, <<"1-A, 2-C, 3-B">>),
             Body("essay", Hi, 2, <<>>, <<>>),
             Body("multiple-choice", Hi, 0, <<>>, <<"B">>)>>,
           <<1, 2>>)

\* The documents the generation call can be answered with: exams as the
\* prompt asks for them, exams without sections or without questions,
\* exams with a question that lacks its content, a document without the
\* field sections, and null.
GenerationValues ==
  { ScenarioExam, CountedExam,
    MakeExam(<<>>, <<>>), MakeExam(<<>>, <<0>>),
    Strip(ScenarioExam, {IdOf(1)}), Strip(ScenarioExam, {IdOf(2)}),
    Strip(ScenarioExam, {IdOf(3)}),
    Strip(CountedExam, {IdOf(1)}), Strip(CountedExam, {IdOf(2)}),
    [title |-> "Exam"],
    JsonNull }

GenerationResponses == ResponsesOf(GenerationValues)

-----------------------------------------------------------------------------
(* The preview and the export.                                             *)

\* generatedExam is <<>> for null and <<exam>> otherwise; editingId is <<>>
\* for null and <<id>> otherwise; exported is <<>> until a document has been
\* downloaded and then <<document>>, the last one.

Data == generatedExam[1]

\* The questions of an exam in document order.
RECURSIVE Flatten(_, _)
Flatten(sections, k) ==
  IF k > Len(sections) THEN <<>>
  ELSE sections[k].questions \o Flatten(sections, k + 1)

Questions == Flatten(Data.sections, 1)

\* ExamPreview is on the page: the wizard is at the preview step with an
\* exam, nothing is loading, and no render has raised.
PreviewShown ==
  raised = "" /\ ~isLoading /\ currentStep = PREVIEW /\ generatedExam # <<>>

\* The preview as it is mounted, for every exam: the wizard has reached the
\* preview step from the mock analysis.
Init ==
  /\ generatedExam \in { <<e>> : e \in Exams }
  /\ editingId = <<>>
  /\ exported = <<>>
  /\ currentStep = PREVIEW
  /\ isLoading = FALSE
  /\ error = <<>>
  /\ sampleAnalysis = <<mockAnalysis>>
  /\ pending = <<>>
  /\ raised = ""

\* An edit button that only closes the question being edited, whichever
\* question is clicked.
handleEditClickCloseOnly(id) ==
  /\ generatedExam # <<>>
  /\ editingId' = IF editingId # <<>> THEN <<>> ELSE <<id>>
  /\ UNCHANGED <<generatedExam, exported>>
  /\ UNCHANGED wizard

\* An edit button that also marks the exam as edited.
handleEditClickMarking(id) ==
  /\ generatedExam # <<>>
  /\ editingId' = IF editingId = <<id>> THEN <<>> ELSE <<id>>
  /\ generatedExam' = <<[generatedExam[1] EXCEPT !.title = "Exam (edited)"]>>
  /\ UNCHANGED exported
  /\ UNCHANGED wizard

\* The edit button of the question with this id.
handleEditClick(id) ==
  /\ generatedExam # <<>>
  /\ editingId' = IF editingId = <<id>> THEN <<>> ELSE <<id>>
  /\ UNCHANGED <<generatedExam, exported>>
  /\ UNCHANGED wizard

\* The download button: the document is the markup of exam-content as it is
\* shown, followed by the answer key.
handleExport ==
  /\ generatedExam # <<>>
  /\ exported' = <<[content |-> ExamContent(Data, editingId),
                    answerKey |-> answerKeyContent(Data)]>>
  /\ UNCHANGED <<generatedExam, editingId>>
  /\ UNCHANGED wizard

\* A click on the edit button of one of the questions on the page.
EditClick ==
  /\ PreviewShown
  /\ \E j \in 1..Len(Questions) : handleEditClick(Questions[j].id)

\* A click on the download button of the preview.
ExportClick == PreviewShown /\ handleExport

Next == EditClick \/ ExportClick

Spec == Init /\ [][Next]_vars

-----------------------------------------------------------------------------
(* The wizard of App: upload, analysis, matrix, generation.                *)

\* The questions of a document on which q.content.match raises: the
\* numbering pass reads the content of a conversation-matching question
\* that has no count.
MatchRaises(q) ==
  q.type = "conversation-matching" /\ q.questionCount = 0 /\ "content" \notin DOMAIN q

\* The questions on which q.content.replace raises: renderQuestionContent
\* reads the content of every conversation-matching question.
ReplaceRaises(q) == q.type = "conversation-matching" /\ "content" \notin DOMAIN q

\* Whether the numbering pass raises on data: data.sections.forEach on a
\* document without sections, and match on a question without content.
NumberingRaises(data) ==
  \/ "sections" \notin DOMAIN data
  \/ LET qs == Flatten(data.sections, 1) IN \E j \in 1..Len(qs) : MatchRaises(qs[j])

\* Where the render that follows a change of state raises: "" when it does
\* not, else the function that raised.  Nothing catches it: the page is
\* taken down.
Render(step, loading, analysis, exam) ==
  IF loading THEN ""
  ELSE IF step = MATRIX
  THEN IF analysis # <<>> /\ "readingStats" \notin DOMAIN analysis[1]
       THEN "renderStep" ELSE ""
  ELSE IF step = PREVIEW /\ exam # <<>>
  THEN IF NumberingRaises(exam[1]) THEN "questionNumberMap"
       ELSE LET qs == Flatten(exam[1].sections, 1)
            IN  IF \E j \in 1..Len(qs) : ReplaceRaises(qs[j])
                THEN "renderQuestionContent" ELSE ""
  ELSE ""

\* The sequence without its i-th element.
Remove(seq, i) == SubSeq(seq, 1, i - 1) \o SubSeq(seq, i + 1, Len(seq))

InitWizard ==
  /\ currentStep = UPLOAD
  /\ isLoading = FALSE
  /\ error = <<>>
  /\ sampleAnalysis = <<>>
  /\ generatedExam = <<>>
  /\ editingId = <<>>
  /\ exported = <<>>
  /\ pending = <<>>
  /\ raised = ""

\* renderStep shows the file input: the page is up, nothing is loading,
\* and the step is the upload step.
UploadShown == raised = "" /\ ~isLoading /\ currentStep = UPLOAD

\* A renderStep that shows the matrix step while loading.
MatrixShownWhileLoading == raised = "" /\ currentStep = MATRIX

\* renderStep shows the matrix step with its fields and its button.
MatrixShown == raised = "" /\ ~isLoading /\ currentStep = MATRIX

\* The change event of the file input.  readAsText on a new reader does
\* not throw, so the catch block is not entered.
handleFileUpload(files) ==
  /\ UploadShown
  /\ IF files = <<>> THEN UNCHANGED vars
     ELSE /\ isLoading' = TRUE
          /\ error' = <<>>
          /\ pending' = Append(pending, [op |-> "readAsText", file |-> files[1]])
          /\ UNCHANGED <<generatedExam, editingId, exported, currentStep,
                         sampleAnalysis, raised>>

\* reader.onload up to its first wait: a timer for a text that looks
\* binary, the analysis call for any other.
readerOnload ==
  \E i \in 1..Len(pending) :
    /\ pending[i].op = "readAsText"
    /\ pending[i].file.readable
    /\ pending' = Append(Remove(pending, i),
                         IF LooksBinary(pending[i].file.text)
                         THEN [op |-> "setTimeout"]
                         ELSE [op |-> "analyzeExamFile"])
    /\ UNCHANGED <<generatedExam, editingId, exported, currentStep, isLoading,
                   error, sampleAnalysis, raised>>

\* The read fails: the reader has no onerror handler, and onload is not
\* called.
readerOnerror ==
  \E i \in 1..Len(pending) :
    /\ pending[i].op = "readAsText"
    /\ ~pending[i].file.readable
    /\ pending' = Remove(pending, i)
    /\ UNCHANGED <<generatedExam, editingId, exported, currentStep, isLoading,
                   error, sampleAnalysis, raised>>

\* The callback of setTimeout.
mockTimeout ==
  \E i \in 1..Len(pending) :
    /\ pending[i].op = "setTimeout"
    /\ pending' = Remove(pending, i)
    /\ sampleAnalysis' = <<mockAnalysis>>
    /\ isLoading' = FALSE
    /\ currentStep' = MATRIX
    /\ raised' = Render(MATRIX, FALSE, sampleAnalysis', generatedExam)
    /\ UNCHANGED <<generatedExam, editingId, exported, error>>

\* reader.onload after `await analyzeExamFile(text)`.
analysisReturned(response) ==
  \E i \in 1..Len(pending) :
    /\ pending[i].op = "analyzeExamFile"
    /\ pending' = Remove(pending, i)
    /\ sampleAnalysis' = Nullable(analyzeExamFile(response))
    /\ isLoading' = FALSE
    /\ currentStep' = MATRIX
    /\ raised' = Render(MATRIX, FALSE, sampleAnalysis', generatedExam)
    /\ UNCHANGED <<generatedExam, editingId, exported, error>>

\* onChange of the word-count field: parseInt(e.target.value) || 0.
setAvgWordCount(value) ==
  /\ MatrixShown
  /\ IF sampleAnalysis = <<>> THEN UNCHANGED vars
     ELSE /\ sampleAnalysis' =
               <<[sampleAnalysis[1] EXCEPT !.readingStats.avgWordCount = ParseDigits(value)]>>
          /\ UNCHANGED <<generatedExam, editingId, exported, currentStep, isLoading,
                         error, pending, raised>>

\* onChange of the difficulty field of the reading material.
setDifficultyDesc(value) ==
  /\ MatrixShown
  /\ IF sampleAnalysis = <<>> THEN UNCHANGED vars
     ELSE /\ sampleAnalysis' =
               <<[sampleAnalysis[1] EXCEPT !.readingStats.difficultyDesc = value]>>
          /\ UNCHANGED <<generatedExam, editingId, exported, currentStep, isLoading,
                         error, pending, raised>>

\* A generate button that leaves the last error message in place.
handleGenerateKeepingError ==
  /\ MatrixShown
  /\ IF sampleAnalysis = <<>> THEN UNCHANGED vars
     ELSE /\ isLoading' = TRUE
          /\ pending' = Append(pending, [op |-> "generateFullExam"])
          /\ UNCHANGED <<generatedExam, editingId, exported, currentStep,
                         sampleAnalysis, raised, error>>

\* The generate button, up to `await generateFullExam(...)`.
handleGenerate ==
  /\ MatrixShown
  /\ IF sampleAnalysis = <<>> THEN UNCHANGED vars
     ELSE /\ isLoading' = TRUE
          /\ error' = <<>>
          /\ pending' = Append(pending, [op |-> "generateFullExam"])
          /\ UNCHANGED <<generatedExam, editingId, exported, currentStep,
                         sampleAnalysis, raised>>

\* err.message || the default message (in ASCII).
ErrorMessage(message) ==
  IF message # "" THEN message ELSE "Khong the tao de thi. Vui long kiem tra ket noi API va thu lai."

\* handleGenerate after `await generateFullExam(...)`: the try block goes
\* on, or the catch block runs, and then the finally block.
generateReturned(response) ==
  \E i \in 1..Len(pending) :
    /\ pending[i].op = "generateFullExam"
    /\ pending' = Remove(pending, i)
    /\ LET exam == generateFullExam(response)
       IN  IF exam.thrown
           THEN /\ error' = <<ErrorMessage(exam.message)>>
                /\ UNCHANGED <<generatedExam, currentStep>>
           ELSE /\ generatedExam' = Nullable(exam.value)
                /\ currentStep' = PREVIEW
                /\ UNCHANGED error
    /\ isLoading' = FALSE
    /\ raised' = Render(currentStep', FALSE, sampleAnalysis, generatedExam')
    /\ UNCHANGED <<editingId, exported, sampleAnalysis>>

FileUpload == \E files \in FileLists : handleFileUpload(files)

AnalysisReturned == \E response \in AnalysisResponses : analysisReturned(response)

EditAnalysis ==
  \/ \E value \in WordCountInputs : setAvgWordCount(value)
  \/ \E value \in DifficultyInputs : setDifficultyDesc(value)

GenerateReturned == \E response \in GenerationResponses : generateReturned(response)

NextWizard ==
  \/ FileUpload
  \/ readerOnload
  \/ readerOnerror
  \/ mockTimeout
  \/ AnalysisReturned
  \/ EditAnalysis
  \/ handleGenerate
  \/ GenerateReturned
  \/ EditClick
  \/ ExportClick

SpecWizard == InitWizard /\ [][NextWizard]_vars

\* The wizard with the scheduling of the page: an event that has been
\* queued (the end of a read, a timer, a call that settled) is delivered.
FairWizard ==
  /\ SpecWizard
  /\ WF_vars(readerOnload)
  /\ WF_vars(readerOnerror)
  /\ WF_vars(mockTimeout)
  /\ WF_vars(AnalysisReturned)
  /\ WF_vars(GenerateReturned)

-----------------------------------------------------------------------------
(* What the properties speak of.                                           *)

\* The questions as the preview shows them now, in document order.
Shown == Flatten(ExamContent(Data, editingId), 1)

\* The answer lines of a key, in the order written.
AnswerLines(key) == SelectSeq(key, LAMBDA p : p.tag = "line")

\* The number of "(digits)" markers in a text.
NumMarkers(s) == Len(MarkerMatches(s, 1))

\* The numbers the markers of a text carry, left to right.
MarkerNumbers(s) ==
  LET m == MarkerMatches(s, 1)
  IN  [k \in 1..Len(m) |-> ParseDigits(SubSeq(s, m[k][1] + 1, m[k][2] - 1))]

\* The text of s outside its markers: the pieces before, between and after.
OutsideMarkers(s) ==
  LET m == MarkerMatches(s, 1)
  IN  [k \in 1..(Len(m) + 1) |->
         SubSeq(s, IF k = 1 THEN 1 ELSE m[k - 1][2] + 1,
                   IF k = Len(m) + 1 THEN Len(s) ELSE m[k][1] - 1)]

\* The effective count of a question as the specification defines it.
EffectiveCount(q) ==
  IF q.questionCount # 0 THEN q.questionCount
  ELSE IF q.type = "conversation-matching"
       THEN IF NumMarkers(q.content) = 0 THEN 1 ELSE NumMarkers(q.content)
       ELSE 1

RECURSIVE TotalCount(_, _)
TotalCount(qs, j) == IF j = 0 THEN 0 ELSE TotalCount(qs, j - 1) + EffectiveCount(qs[j])

\* The number a label "Question n:" or "Questions n - m:" begins with, and
\* the pair <<n, m>> it stands for (m = n for a single number).
FirstNumber(label) == ParseDigits(SubSeq(label, 2, DigitRunEnd(label, 2)))

LabelRange(label) ==
  LET e == DigitRunEnd(label, 2)
  IN  IF label[1] = "Questions "
      THEN <<FirstNumber(label), ParseDigits(SubSeq(label, e + 2, DigitRunEnd(label, e + 2)))>>
      ELSE <<FirstNumber(label), FirstNumber(label)>>

IsConversation(q) == q.type = "conversation-matching"

\* C1: the intervals [start(q), start(q) + effectiveCount(q) - 1] of the
\* numbering pass, over all questions of all sections, partition 1..N, N the
\* sum of the effective counts: every interval lies in 1..N and every number
\* of 1..N lies in exactly one interval.
C1_NumberingPartitionsRange ==
  generatedExam # <<>> =>
    LET qs == Questions
        numbers == questionNumberMap(Data)
    IN
        LET map == numbers
            n == Len(qs)
            N == TotalCount(qs, n)
            first(j) == map[qs[j].id]
            last(j) == first(j) + EffectiveCount(qs[j]) - 1
        IN  /\ \A j \in 1..n : qs[j].id \in DOMAIN map /\ 1 <= first(j) /\ last(j) <= N
            /\ \A x \in 1..N : Cardinality({j \in 1..n : first(j) <= x /\ x <= last(j)}) = 1

\* An exam with questions in two sections, the first of which holds a
\* question standing for several numbers, is numbered.
C1_Witness ==
  /\ generatedExam # <<>>
  /\ Len(Data.sections) >= 2
  /\ Len(Data.sections[1].questions) >= 1
  /\ Len(Data.sections[2].questions) >= 1
  /\ EffectiveCount(Data.sections[1].questions[1]) > 1
  /\ questionNumberMap(Data)[Data.sections[2].questions[1].id] > 2

\* C2: for every question, the number of its label in the preview equals
\* the first number of the label the answer-key walk writes for it.
C2_PreviewAgreesWithKey ==
  generatedExam # <<>> =>
    LET shown == Shown
        qs == Questions
    IN
        LET lines == AnswerLines(answerKeyContent(Data))
        IN  /\ Len(lines) = Len(shown)
            /\ \A j \in 1..Len(shown) :
                 /\ shown[j].id = qs[j].id
                 /\ FirstNumber(shown[j].label) = FirstNumber(lines[j].label)

\* A question that follows one standing for several numbers is shown and
\* keyed while a question is in edit mode.
C2_Witness ==
  /\ generatedExam # <<>>
  /\ editingId # <<>>
  /\ \E j \in 1..Len(Shown) :
       /\ j > 1
       /\ EffectiveCount(Questions[j - 1]) > 1
       /\ FirstNumber(Shown[j].label) > j
       /\ FirstNumber(AnswerLines(answerKeyContent(Data))[j].label) > j

\* C3: in every exported document, the numbering of the body matches the
\* answer key for every question: the label of the question carries the
\* first number of its key label, and the gap markers of a
\* conversation-matching question carry exactly the numbers of the key
\* label, in order.
C3_ExportedBodyMatchesKey ==
  exported # <<>> =>
    LET body == Flatten(exported[1].content, 1)
        lines == AnswerLines(exported[1].answerKey)
    IN  /\ Len(lines) = Len(body)
        /\ \A j \in 1..Len(body) :
             LET range == LabelRange(lines[j].label)
                 gaps == MarkerNumbers(body[j].content)
             IN  /\ FirstNumber(body[j].label) = range[1]
                 /\ (IsConversation(Questions[j]) /\ gaps # <<>>) =>
                      gaps = [k \in 1..(range[2] - range[1] + 1) |-> range[1] + k - 1]

\* The label the specification gives a question that starts at n.
ExpectedKeyLabel(q, n) ==
  IF EffectiveCount(q) = 1 THEN <<"Question ">> \o Decimal(n) \o <<":">>
  ELSE <<"Questions ">> \o Decimal(n) \o <<" - ">>
       \o Decimal(n + EffectiveCount(q) - 1) \o <<":">>

\* C4: in the answer key of every exported document, a question of any kind
\* whose effective count is 1 is labelled "Question n" and one whose
\* effective count is greater than 1 is labelled "Questions n - n+count-1",
\* n its start number.
C4_KeyLabelsByEffectiveCount ==
  exported # <<>> =>
    LET lines == AnswerLines(exported[1].answerKey)
    IN  /\ Len(lines) = Len(Questions)
        /\ \A j \in 1..Len(Questions) :
             lines[j].label =
               ExpectedKeyLabel(Questions[j], 1 + TotalCount(Questions, j - 1))

\* C5: both passes advance their counter by the effective count: explicit
\* questionCount when given, else for conversation-matching the number of
\* markers or 1 when there are none, else 1.
C5_BothPassesAdvanceByEffectiveCount ==
  generatedExam # <<>> =>
    LET qs == Questions
    IN
        LET pass == NumberingPass(Data)
            walk == AnswerKeyWalk(Data)
            lines == AnswerLines(walk.key)
            n == Len(qs)
            previewAt(j) == IF j <= n THEN pass.map[qs[j].id] ELSE pass.counter
            keyAt(j) == IF j <= n THEN FirstNumber(lines[j].label) ELSE walk.globalKeyIndex
        IN  \A j \in 1..n :
              /\ previewAt(j + 1) = previewAt(j) + EffectiveCount(qs[j])
              /\ keyAt(j + 1) = keyAt(j) + EffectiveCount(qs[j])

\* An exam holds a conversation-matching question whose explicit count is
\* not its number of markers, and a question of another kind with an
\* explicit count above 1 or a conversation-matching one with none.
C5_Witness ==
  /\ generatedExam # <<>>
  /\ \E j \in 1..Len(Questions) :
       /\ IsConversation(Questions[j])
       /\ Questions[j].questionCount # 0
       /\ Questions[j].questionCount # NumMarkers(Questions[j].content)
  /\ \E j \in 1..Len(Questions) :
       \/ ~IsConversation(Questions[j]) /\ Questions[j].questionCount > 1
       \/ IsConversation(Questions[j]) /\ Questions[j].questionCount = 0
            /\ NumMarkers(Questions[j].content) > 1

\* C6: a conversation-matching question that is not in edit mode is shown
\* with the k-th marker of its raw content (k from 0) replaced by "(s+k)",
\* s its start number, whatever the raw marker carried; the number of
\* markers and the text outside the markers are those of the raw content.
C6_MarkersRenumberedFromStart ==
  generatedExam # <<>> =>
    LET shown == Shown
        qs == Questions
        numbers == questionNumberMap(Data)
    IN
        \A j \in 1..Len(qs) :
          (IsConversation(qs[j]) /\ editingId # <<qs[j].id>>) =>
            LET raw == qs[j].content
                out == shown[j].content
                s == numbers[qs[j].id]
                m == MarkerMatches(out, 1)
            IN  /\ NumMarkers(out) = NumMarkers(raw)
                /\ \A k \in 1..Len(m) :
                     SubSeq(out, m[k][1], m[k][2]) = <<"(">> \o Decimal(s + k - 1) \o <<")">>
                /\ OutsideMarkers(out) = OutsideMarkers(raw)

\* The example of the specification: markers (5), (9), (20) of a question
\* that starts at 11 are shown as (11), (12), (13), while another question
\* is in edit mode.
C6_Witness ==
  /\ generatedExam # <<>>
  /\ \E j \in 1..Len(Questions) :
       /\ IsConversation(Questions[j])
       /\ editingId # <<>>
       /\ editingId # <<Questions[j].id>>
       /\ questionNumberMap(Data)[Questions[j].id] = 11
       /\ MarkerNumbers(Questions[j].content) = <<5, 9, 20>>
       /\ MarkerNumbers(Shown[j].content) = <<11, 12, 13>>

\* C7: every gap-marker number shown in the content of a
\* conversation-matching question lies in the range
\* [start, start + effectiveCount - 1] reserved for the question.
C7_ShownGapsWithinReservedRange ==
  generatedExam # <<>> =>
    LET shown == Shown
        qs == Questions
        numbers == questionNumberMap(Data)
    IN
        \A j \in 1..Len(qs) :
          IsConversation(qs[j]) =>
            LET s == numbers[qs[j].id]
                gaps == MarkerNumbers(shown[j].content)
            IN  \A k \in 1..Len(gaps) :
                  s <= gaps[k] /\ gaps[k] <= s + EffectiveCount(qs[j]) - 1

\* The text begins with a letter A-H and a dot.
BeginsWithLetterDot(s) ==
  Len(s) >= 2 /\ \E l \in 1..8 : s[1] = Letters[l] /\ s[2] = "."

\* The text begins, after any leading white space, with a letter A-H and a
\* dot.
BeginsWithLetterDotAfterSpace(s) ==
  \E i \in 1..Len(s) :
    /\ \A h \in 1..(i - 1) : s[h] \in Whitespace
    /\ BeginsWithLetterDot(SubSeq(s, i, Len(s)))

\* The option at zero-based index i with its letter: "A. text", "B. text".
Lettered(opt, i) == <<Letters[i + 1], ".", " ">> \o opt

\* C8 as stated: every question with an options list, whatever its kind,
\* shows the option at index i as its letter, ". " and the text, and an
\* option that begins with a letter A-H and a dot verbatim.
C8_OptionsLetteredForEveryKind ==
  generatedExam # <<>> =>
    LET shown == Shown
        qs == Questions
    IN
        \A j \in 1..Len(qs) :
          qs[j].options # <<>> =>
            LET opts == qs[j].options[1]
            IN  /\ shown[j].options # <<>>
                /\ Len(shown[j].options[1]) = Len(opts)
                /\ \A i \in 1..Len(opts) :
                     shown[j].options[1][i] =
                       IF BeginsWithLetterDot(opts[i]) THEN opts[i]
                       ELSE Lettered(opts[i], i - 1)

\* C8 amended: a conversation-matching question shows the option at index i
\* as its letter, ". " and the text, and an option that begins, after any
\* leading white space, with a letter A-H and a dot verbatim; a question of
\* any other kind shows every option verbatim.
C8_OptionsLetteredForConversation ==
  generatedExam # <<>> =>
    LET shown == Shown
        qs == Questions
    IN
        \A j \in 1..Len(qs) :
          qs[j].options # <<>> =>
            LET opts == qs[j].options[1]
            IN  /\ shown[j].options # <<>>
                /\ Len(shown[j].options[1]) = Len(opts)
                /\ \A i \in 1..Len(opts) :
                     shown[j].options[1][i] =
                       IF IsConversation(qs[j]) /\ ~BeginsWithLetterDotAfterSpace(opts[i])
                       THEN Lettered(opts[i], i - 1)
                       ELSE opts[i]

\* A conversation-matching question with the options "A. Paris" and "go" is
\* shown with "A. Paris" and "B. go".
C8_Witness ==
  /\ generatedExam # <<>>
  /\ \E j \in 1..Len(Questions) :
       /\ IsConversation(Questions[j])
       /\ Questions[j].options = << << <<"A", ".", " ">> \o Paris, <<"g", "o">> >> >>
       /\ Shown[j].options = << << <<"A", ".", " ">> \o Paris, <<"B", ".", " ", "g", "o">> >> >>

\* C9: the answer key of every exported document holds one answer line per
\* question, in document order under the title of the question's section,
\* with the question's correctAnswer verbatim, or the empty string when it
\* is absent.
C9_OneAnswerLinePerQuestion ==
  exported # <<>> =>
    LET key == exported[1].answerKey
        lines == AnswerLines(key)
        expected(q) == IF q.correctAnswer = <<>> THEN "" ELSE q.correctAnswer[1]
    IN  /\ Len(lines) = Len(Questions)
        /\ \A j \in 1..Len(Questions) : lines[j].text = expected(Questions[j])
        /\ Len(key) = Len(Questions) + Len(Data.sections)
        /\ \A k \in 1..Len(Data.sections) :
             LET at == k + Len(Flatten(SubSeq(Data.sections, 1, k - 1), 1))
             IN  /\ key[at].tag = "title"
                 /\ \A i \in 1..Len(Data.sections[k].questions) : key[at + i].tag = "line"

\* A document has been exported for an exam that holds a question with a
\* reference answer and one without.
C9_Witness ==
  /\ exported # <<>>
  /\ \E j \in 1..Len(Questions) : Questions[j].correctAnswer = <<>>
  /\ \E j \in 1..Len(Questions) :
       /\ Questions[j].correctAnswer = <<"1-A, 2-C">>
       /\ AnswerLines(exported[1].answerKey)[j].text = "1-A, 2-C"

\* The questions the preview of an exam shows in edit mode when editingId
\* has the value editing.
EditedFor(exam, editing) ==
  LET shown == Flatten(ExamContent(exam[1], editing), 1)
  IN  {j \in 1..Len(shown) : shown[j].contentEditable}

Edited == EditedFor(generatedExam, editingId)

\* C10: before and after every step at most one question is in edit mode,
\* and every click on an edit button leaves exactly the clicked question in
\* edit mode when it was not in edit mode, and no question when it was.
C10_AtMostOneEdited ==
  [][/\ Cardinality(Edited) <= 1
     /\ Cardinality(EditedFor(generatedExam', editingId')) <= 1
     /\ \A j \in 1..Len(Questions) :
          handleEditClick(Questions[j].id) =>
            EditedFor(generatedExam', editingId') = IF j \in Edited THEN {} ELSE {j}]_vars

\* The second question is in edit mode and the first is not.
C10_Witness ==
  /\ generatedExam # <<>>
  /\ Len(Questions) >= 2
  /\ Edited = {2}

\* C11: every step that toggles edit mode changes editingId and nothing
\* else: the exam (sections, questions, contents, counts, answers) and the
\* mapping of identifiers to start numbers computed from it are the same
\* before and after, and so is the rest of the state.
C11_ToggleChangesOnlyEditingId ==
  [][editingId' # editingId =>
       /\ generatedExam' = generatedExam
       /\ questionNumberMap(generatedExam'[1]) = questionNumberMap(generatedExam[1])
       /\ exported' = exported
       /\ wizard' = wizard]_vars

\* A question that does not start at 1 is in edit mode, in an exam with a
\* conversation-matching question whose markers are counted.
C11_Witness ==
  /\ generatedExam # <<>>
  /\ editingId # <<>>
  /\ questionNumberMap(Data)[editingId[1]] > 1
  /\ \E j \in 1..Len(Questions) :
       /\ Questions[j].type = "conversation-matching"
       /\ Questions[j].questionCount = 0
       /\ PreviewIncrement(Questions[j]) > 1

\* C12: the numbering pass raises on no question, whatever its kind and
\* with or without a count, whose content is malformed or absent: whenever
\* the preview step holds an exam that has its sections, the numbering
\* pass has not raised.
C12_NumberingNeverRaises ==
  (currentStep = PREVIEW /\ generatedExam # <<>> /\ "sections" \in DOMAIN Data)
    => raised # "questionNumberMap"

\* A parsed document that has the fields of an exam the preview reads.
CompleteExam(value) ==
  value # JsonNull /\ "title" \in DOMAIN value /\ "sections" \in DOMAIN value

\* A response with a text that is no valid JSON, or is the JSON of a
\* document that is no complete exam.
BadGeneration(response) ==
  /\ ~response.rejected
  /\ response.text # <<>>
  /\ LET cleanedText == cleanJsonString(response.text)
     IN  Parses(cleanedText) => ~CompleteExam(JsonParse(cleanedText))

\* C13: whenever the generation call is answered with a text that is no
\* valid JSON or whose document lacks required fields of an exam,
\* generateFullExam throws, handleGenerate sets an error message, and the
\* wizard does not enter the preview step.
C13_BadGenerationIsAnError ==
  [][\A response \in GenerationResponses :
       (BadGeneration(response) /\ generateReturned(response)) =>
         /\ generateFullExam(response).thrown
         /\ error' # <<>>
         /\ currentStep' # PREVIEW]_vars

\* An analysis call that fails, or whose answer has no text or a text that
\* cannot be parsed.
FailedAnalysis(response) ==
  \/ response.rejected
  \/ response.text = <<>>
  \/ ~Parses(cleanJsonString(response.text))

C15_UploadLoadingEnds == (isLoading /\ currentStep = UPLOAD) ~> ~isLoading

\* C16: for an exam with no sections, or whose sections all have no
\* questions, the numbering pass raises nothing and returns the empty
\* mapping, the preview shows no question, and the answer key, as computed
\* and as exported, has no answer line.
C16_EmptyExamNumbersNothing ==
  (currentStep = PREVIEW /\ generatedExam # <<>> /\ "sections" \in DOMAIN Data
     /\ Len(Questions) = 0) =>
    /\ raised = ""
    /\ ~NumberingRaises(Data)
    /\ questionNumberMap(Data) = EmptyMap
    /\ Shown = <<>>
    /\ AnswerLines(answerKeyContent(Data)) = <<>>
    /\ exported # <<>> =>
         /\ Flatten(exported[1].content, 1) = <<>>
         /\ AnswerLines(exported[1].answerKey) = <<>>

\* An exam of one section without questions has been exported.
C16_Witness ==
  /\ currentStep = PREVIEW
  /\ generatedExam # <<>>
  /\ "sections" \in DOMAIN Data
  /\ Len(Data.sections) = 1
  /\ Len(Questions) = 0
  /\ exported # <<>>

\* A generation that succeeds: the call is answered with a text that parses
\* to a complete exam.
GoodGeneration(response) ==
  /\ ~generateFullExam(response).thrown
  /\ CompleteExam(generateFullExam(response).value)

\* C17: a generation attempt that fails leaves the wizard at the matrix
\* step, not loading, with an error message, and with generatedExam and
\* sampleAnalysis as they were, so that the generate button is there again;
\* a click on it with an error showing clears the error and starts loading;
\* and a generation that succeeds moves to the preview step with the new
\* exam, not loading, no error showing.
C17_FailedGenerationCanBeRetried ==
  [][/\ \A response \in GenerationResponses :
          (generateFullExam(response).thrown /\ generateReturned(response)) =>
            /\ currentStep = MATRIX /\ currentStep' = MATRIX
            /\ ~isLoading'
            /\ error' = <<ErrorMessage(generateFullExam(response).message)>>
            /\ generatedExam' = generatedExam
            /\ sampleAnalysis' = sampleAnalysis
            /\ raised' = "" /\ sampleAnalysis' # <<>>
     /\ (error # <<>> /\ handleGenerate) =>
            /\ error' = <<>>
            /\ isLoading'
            /\ pending' = <<[op |-> "generateFullExam"]>>
     /\ \A response \in GenerationResponses :
          (GoodGeneration(response) /\ generateReturned(response)) =>
            /\ currentStep' = PREVIEW
            /\ generatedExam' = <<generateFullExam(response).value>>
            /\ ~isLoading'
            /\ error' = <<>>]_vars

\* A generation has failed: the matrix step with an error message, the
\* analysis kept, no exam stored, and the generate button enabled.
C17_Witness ==
  /\ currentStep = MATRIX
  /\ ~isLoading
  /\ error # <<>>
  /\ sampleAnalysis # <<>>
  /\ generatedExam = <<>>
  /\ ENABLED handleGenerate

\* C18: a conversation-matching question is shown with its raw content
\* while it is the question in edit mode, and in every other state with its
\* content renumbered (the text outside the markers kept, the markers
\* numbered from its start number); its label is "Question {start
\* number}:" in both.
C18_RawContentOnlyInEditMode ==
  generatedExam # <<>> =>
    LET shown == Shown
        qs == Questions
        numbers == questionNumberMap(Data)
    IN  \A j \in 1..Len(qs) :
          IsConversation(qs[j]) =>
            LET q == qs[j]
                start == numbers[q.id]
            IN  /\ shown[j].label = <<"Question ">> \o Decimal(start) \o <<":">>
                /\ IF editingId = <<q.id>>
                   THEN shown[j].content = q.content
                   ELSE /\ OutsideMarkers(shown[j].content) = OutsideMarkers(q.content)
                        /\ MarkerNumbers(shown[j].content) =
                             [k \in 1..NumMarkers(q.content) |-> start + k - 1]

\* Two conversation-matching questions whose renumbered content differs
\* from the raw content: one in edit mode, shown raw, and one not, shown
\* renumbered.
C18_Witness ==
  /\ generatedExam # <<>>
  /\ \E j \in 1..Len(Questions) :
       /\ IsConversation(Questions[j])
       /\ editingId = <<Questions[j].id>>
       /\ Shown[j].content = Questions[j].content
       /\ ReplaceMarkers(Questions[j].content, 1, questionNumberMap(Data)[Questions[j].id], 0)
            # Questions[j].content
  /\ \E j \in 1..Len(Questions) :
       /\ IsConversation(Questions[j])
       /\ editingId # <<Questions[j].id>>
       /\ Shown[j].content # Questions[j].content

\* C19: in every state of the wizard, the preview step has a generated exam
\* stored and the matrix step has an analysis result stored, whatever the
\* analysis and generation calls are answered with.
C19_StepsHaveTheirData ==
  /\ currentStep = PREVIEW => generatedExam # <<>>
  /\ currentStep = MATRIX => sampleAnalysis # <<>>

\* C20: at most one asynchronous operation (a file read with its analysis,
\* or a generation) is in flight at any time: while one is, isLoading is
\* set, neither the file input nor the generate button is on the page, and
\* no upload and no generation can be started, so that no operation started
\* later can have written the state a completion writes.
C20_OneOperationInFlight ==
  /\ Len(pending) <= 1
  /\ pending # <<>> =>
       /\ isLoading
       /\ ~UploadShown
       /\ ~MatrixShown
       /\ ~ENABLED FileUpload
       /\ ~ENABLED handleGenerate

\* A generation is in flight at the matrix step.
C20_Witness ==
  /\ currentStep = MATRIX
  /\ isLoading
  /\ pending = <<[op |-> "generateFullExam"]>>

====
